---- MODULE Spec2Model ----
(***************************************************************************)
(* State-machine model of the session registry of the MT5 bridge server:   *)
(* SessionManager in src/app/session_manager.py.                           *)
(*                                                                         *)
(* Callers are threads; a call is a sequence of steps, one step per        *)
(* access to the shared state (the _sessions dict, the session             *)
(* directories, the instance attribute session_id, the vendor library's    *)
(* process-wide connection).  Spec lets the steps of different callers     *)
(* interleave freely (the manager takes no lock); SeqSpec has one caller   *)
(* make its calls one after the other (the use the tests make).            *)
(***************************************************************************)
EXTENDS Integers, Sequences, FiniteSets, TLC

\* ---------------------------------------------------------------- bounds
MaxIds     == 2     \* session ids create_session may draw (uuid4, never reused)
MaxTime    == 1     \* clock readings 0..MaxTime
MaxAge     == 0     \* max_age_seconds arguments 0..MaxAge
NumThreads == 2     \* concurrent callers of the manager
MaxConcIds == 1     \* sessions created while calls interleave (Spec)
MaxRequests == 3    \* request lines a worker is sent
MaxProcs   == 2     \* processes psutil.process_iter yields
MaxCommands == 3    \* commands a session process receives over its pipe

\* ------------------------------------------------------ program constants
max_retries == 3

Ids      == 1..MaxIds
Threads  == 1..NumThreads
Unknown  == 0       \* getattr(self, 'session_id', 'unknown') before any creation

\* self.template_dir = <base_path>/_template, as a member of dirs and exes
TemplateDir == -1

\* (login, server) pairs a caller may pass to create_session
Creds == { [login |-> 42, server |-> "srv-A"], [login |-> 7, server |-> "srv-B"] }

VARIABLES
    sessions,       \* self._sessions: dict session id -> Session
    dirs,           \* ids whose directory <base_path>/<id> exists
    exes,           \* ids whose directory holds terminal64.exe
    now,            \* what datetime.now() returns
    session_id,     \* self.session_id, the attribute _initialize_mt5 reads
    mt5_connected,  \* the vendor library's process-wide connection state
    nextId,         \* the next id uuid4 yields
    pc,             \* pc[t]: where caller t is
    loc,            \* loc[t]: the locals of caller t's call
    ret,            \* ret[t]: what caller t's last call returned or raised
    sequential,     \* TRUE when one caller makes the calls one after the other
    app,            \* the FastAPI application's lifecycle (src/main.py)
    worker,         \* one worker process and its input and output (src/worker.py)
    child,          \* one session process (src/app/mt5_session_process.py)
    init_done,      \* history: ids whose _initialize_mt5 returned success
    closed          \* history: ids for which close_session returned True

vars == << sessions, dirs, exes, now, session_id, mt5_connected, nextId,
           pc, loc, ret, sequential, app, worker, child, init_done, closed >>

shared == << sessions, dirs, exes, session_id, mt5_connected, nextId,
             sequential, app, worker, child, init_done, closed >>

\* ------------------------------------------------------------ data model

\* class Session(NamedTuple); proc and port are always None, mt5_path is a
\* function of the id, so the record keeps the remaining fields.
Session(id, login, server, t_created, t_accessed) ==
    [ id |-> id, login |-> login, server |-> server, proc |-> "None",
      created_at |-> t_created, last_accessed |-> t_accessed ]

Registered == DOMAIN sessions

\* dict operations
DictSet(d, k, v) == [ j \in (DOMAIN d) \cup {k} |-> IF j = k THEN v ELSE d[j] ]
DictPop(d, k)    == [ j \in (DOMAIN d) \ {k} |-> d[j] ]

EmptyDict == [ j \in {} |-> 0 ]

\* a sid argument: a session id string, or the dict a create_session returned
StrArg(i) == [ type |-> "str", id |-> i ]
DictArg(r) == [ type |-> "dict", id |-> r.session_id ]

\* the shared state a call starts from (kept while calls are sequential, for
\* the statements that relate a call's result to the state it started from)
Snapshot == [ sessions |-> sessions, dirs |-> dirs, exes |-> exes, now |-> now ]

NoLoc == [ sid |-> Unknown, arg |-> "none", cred |-> "none", cfg |-> "none",
           s |-> "none",
           todo |-> << >>, found |-> {}, max_age |-> 0,
           init_ok |-> FALSE, err |-> "none", caller |-> "none", pre |-> "none" ]

\* the locals a call starts with
Frame == [ NoLoc EXCEPT !.pre = IF sequential THEN Snapshot ELSE "none" ]

NoRet == [ op |-> "none", kind |-> "none" ]

\* the manager used without the application around it
NoServer == [ phase |-> "none", cleanup_task |-> "none" ]

\* no worker process
NoWorker ==
    [ pc |-> "none", reads |-> 0, req |-> "none", cmd_type |-> "none",
      out |-> << >>, init |-> "none", calls |-> 0, shutdowns |-> 0,
      exit |-> "none", broken |-> FALSE ]

\* no session process
NoChild ==
    [ pc |-> "none", initialized |-> FALSE, platform |-> "none", procs |-> << >>,
      k |-> 0, terminated |-> {}, killed |-> {},
      cmd |-> "none", n |-> 0, sent |-> 0, last |-> "none", calls |-> 0,
      vendor |-> "none", way |-> "none", cleanups |-> 0, shutdowns |-> 0 ]

Start(seq, a, w) ==
    /\ sessions = EmptyDict
    /\ dirs = {}
    /\ exes = {}
    /\ now = 0
    /\ session_id = Unknown
    /\ mt5_connected = FALSE
    /\ nextId = 1
    /\ pc = [ t \in Threads |-> "idle" ]
    /\ loc = [ t \in Threads |-> NoLoc ]
    /\ ret = [ t \in Threads |-> NoRet ]
    /\ sequential = seq
    /\ app = a
    /\ worker = w
    /\ init_done = {}
    /\ closed = {}

\* SessionManager.__init__: no session; callers are the server's threads
Init == Start(FALSE, NoServer, NoWorker) /\ child = NoChild

\* caller t is between calls: it has made none yet, holds the result of its
\* last call, or has handed that result on
Ready(t) == pc[t] \in { "idle", "done" }

\* what is kept of a result: all of it when calls are made one after the
\* other, and what tells its outcome when they interleave
Observe(r) ==
    IF sequential THEN r
    ELSE CASE r.op = "create_session" /\ r.kind = "dict" ->
                [ op |-> r.op, kind |-> r.kind, success |-> r.success,
                  session_id |-> r.session_id ]
           [] r.op = "create_session" /\ r.kind = "raise" ->
                [ op |-> r.op, kind |-> r.kind, session_id |-> r.session_id ]
           [] r.op = "get_session" -> [ op |-> r.op, kind |-> r.kind, arg |-> r.arg ]
           [] r.op = "get_all_sessions" ->
                [ op |-> r.op, kind |-> r.kind, keys |-> DOMAIN r.val ]
           [] OTHER -> r

\* a call of caller t ends with result r
Return(t, r) ==
    /\ pc' = [ pc EXCEPT ![t] = "done" ]
    /\ loc' = [ loc EXCEPT ![t] = NoLoc ]
    /\ ret' = [ ret EXCEPT ![t] = Observe(r) ]

Goto(t, label, l) ==
    /\ pc' = [ pc EXCEPT ![t] = label ]
    /\ loc' = [ loc EXCEPT ![t] = l ]
    /\ UNCHANGED ret

\* caller t hands the result on (the handler's response is sent)
Respond(t) ==
    /\ pc[t] = "done"
    /\ pc' = [ pc EXCEPT ![t] = "idle" ]
    /\ ret' = [ ret EXCEPT ![t] = NoRet ]
    /\ UNCHANGED << shared, now, loc >>

\* the clock advances
Tick ==
    /\ now < MaxTime
    /\ now' = now + 1
    /\ UNCHANGED << shared, pc, loc, ret >>

\* ------------------------------------------------- _initialize_mt5 (vendor)

\* what one attempt of the retry loop can meet in the vendor library
AttemptOutcomes == { "ok", "initialize_false", "initialize_raise",
                     "login_false", "login_raise" }
\* mt5.account_info() after a successful login
AccountOutcomes == { "ok", "none", "raise" }

\* the error_message one failed attempt leaves
AttemptError(o) ==
    CASE o = "initialize_false" -> "vendor: initialize failed"
      [] o = "login_false"      -> "vendor: login failed"
      [] OTHER                  -> "vendor: exception"

\* the vendor connection after one attempt that started from conn
AttemptConn(o, conn) ==
    CASE o = "ok"               -> TRUE
      [] o = "initialize_false" -> FALSE
      [] o = "initialize_raise" -> conn
      [] o = "login_false"      -> FALSE     \* mt5.shutdown()
      [] o = "login_raise"      -> TRUE      \* initialized, never shut down

\* for attempt in range(1, max_retries + 1): stop at the first success
RECURSIVE RetryLoop(_, _, _, _)
RetryLoop(k, att, conn, err) ==
    IF k > max_retries THEN [ ok |-> FALSE, err |-> err, conn |-> conn ]
    ELSE IF att[k] = "ok" THEN [ ok |-> TRUE, err |-> err, conn |-> TRUE ]
    ELSE RetryLoop(k + 1, att, AttemptConn(att[k], conn), AttemptError(att[k]))

\* after the loop: give up if no attempt succeeded, else mt5.account_info()
AccountCheck(r, acct) ==
    IF ~ r.ok THEN r
    ELSE IF acct = "none"
    THEN [ ok |-> FALSE, err |-> "vendor: account_info failed", conn |-> FALSE ]
    ELSE [ ok |-> TRUE, err |-> "", conn |-> TRUE ]

\* every way the retry loop can end, over what the attempts meet
RetryVerdicts ==
    { RetryLoop(1, att, FALSE, "") : att \in [ 1..max_retries -> AttemptOutcomes ] }

\* _initialize_mt5: (success, error message) and the connection it leaves.
\* sid is self.session_id as read at entry.
InitializeMt5(sid, att, acct) ==
    IF sid \notin dirs
    THEN [ ok |-> FALSE, err |-> "session directory missing", conn |-> mt5_connected ]
    ELSE IF sid \notin exes
    THEN [ ok |-> FALSE, err |-> "terminal64.exe missing", conn |-> mt5_connected ]
    ELSE AccountCheck(RetryLoop(1, att, FALSE, ""), acct)

\* ---------------------------------------------------------- create_session

\* the dict create_session returns; only the dicts built after the executable
\* was found carry "mt5_path"
CreateResult(ok, id, err, with_path, cred) ==
    [ op |-> "create_session", kind |-> "dict", success |-> ok,
      session_id |-> id, error |-> err, mt5_path |-> with_path,
      login |-> cred.login, server |-> cred.server ]

\* a create_session that reports a message of its own
InitFailureErrorGeneric(error_message) == "unexpected error"

\* error_info = error_message: what create_session reports when
\* _initialize_mt5 failed
InitFailureError(error_message) == error_message

\* a create_session that stores the Session whatever the verdict
StoresSessionAlways(init_success) == TRUE

\* if not init_success: return the error; else: store the Session
StoresSession(init_success) == init_success

\* a create_session that removes the directory of the failed id
DirsAfterFailedInitRemoved(ds, id) == ds \ { id }

\* "Keep session directory for diagnostics": the directories after a failed
\* initialization of id
DirsAfterFailedInit(ds, id) == ds

\* the passwords a caller may pass to create_session, and whether the copy of
\* the template brought connection_settings.ini, accounts_settings.ini and
\* login.ini into the session's Config directory (both cases are followed for
\* calls made one after the other)
Passwords == IF sequential THEN { "pw-1", "pw-2" } ELSE { "pw-1" }
LoginFileCases == IF sequential THEN BOOLEAN ELSE { FALSE }

\* a configuration writer that puts the password into terminal.ini
CreateMt5ConfigWithSecret(login, password, server, has_login_files) ==
    [ terminal_ini |-> [ Login |-> login, Server |-> server,
                         CommunityPassword |-> password ],
      connection_settings_ini |-> [ server |-> server, copied |-> has_login_files ],
      login_ini |-> [ login |-> login, copied |-> has_login_files ],
      portable_mode |-> "portable" ]

\* _create_mt5_config: the files it leaves in the session directory.  With
\* the login files present only terminal.ini (Login=0) is rewritten;
\* otherwise terminal.ini carries login and server, and connection_settings.ini
\* and login.ini are written from server and login.
CreateMt5Config(login, password, server, has_login_files) ==
    [ terminal_ini |-> [ Login |-> IF has_login_files THEN 0 ELSE login,
                         Server |-> IF has_login_files THEN "" ELSE server,
                         CommunityPassword |-> "" ],
      connection_settings_ini |-> [ server |-> IF has_login_files THEN "" ELSE server,
                                    copied |-> has_login_files ],
      login_ini |-> [ login |-> IF has_login_files THEN 0 ELSE login,
                      copied |-> has_login_files ],
      portable_mode |-> "portable" ]

\* the Session create_session stores
NewSession(id, cred, t) == Session(id, cred.login, cred.server, t, t)

\* how many sessions a behaviour creates
IdLimit == IF sequential THEN MaxIds ELSE MaxConcIds

\* uuid4, self.session_id = session_id, os.makedirs(session_dir); limit is
\* the number of ids the behaviour may draw
CreateCallUpTo(t, limit) ==
    /\ Ready(t)
    /\ nextId <= limit
    /\ nextId' = nextId + 1
    /\ session_id' = nextId
    /\ \E c \in Creds, pw \in Passwords, mk \in { "ok", "raise" } :
         IF mk = "ok"
         THEN /\ dirs' = dirs \cup { nextId }
              /\ Goto(t, "cs_prepare",
                      [ Frame EXCEPT !.sid = nextId,
                                     !.cred = [ login |-> c.login, server |-> c.server,
                                                password |-> pw ] ])
         ELSE /\ dirs' = dirs
              /\ Return(t, [ op |-> "create_session", kind |-> "raise",
                             exc |-> "OSError", session_id |-> nextId,
                             login |-> c.login, server |-> c.server ])
    /\ UNCHANGED << sessions, exes, now, mt5_connected, sequential, app, worker, child, init_done, closed >>

CreateCall(t) == CreateCallUpTo(t, IdLimit)

\* where the session directory can get terminal64.exe from: the template, if
\* there is one that has it (_copy_template_files), and portable_mt5_path
\* (_get_mt5_exec_path, when the directory is still without it)
ExeSources ==
    ( IF TemplateDir \in dirs \cap exes THEN { "template" } ELSE {} )
        \cup { "portable_mt5_path" }

\* the subdirectories, _copy_template_files, _create_mt5_config,
\* _get_mt5_exec_path: the directory ends up with or without terminal64.exe
CreatePrepare(t) ==
    /\ pc[t] = "cs_prepare"
    /\ ExeSources # {}
    /\ LET id == loc[t].sid IN
       \E o \in { "ok", "no_exe", "no_dir", "raise" } :
         CASE o = "ok" ->
                /\ dirs' = dirs \cup { id }
                /\ exes' = exes \cup { id }
                /\ \E hl \in LoginFileCases :
                     Goto(t, "cs_init",
                          [ loc[t] EXCEPT !.cfg =
                              CreateMt5Config(loc[t].cred.login, loc[t].cred.password,
                                              loc[t].cred.server, hl) ])
           [] o = "no_exe" ->
                /\ dirs' = dirs \cup { id }
                /\ exes' = exes
                /\ Return(t, CreateResult(FALSE, id, "terminal64.exe not found",
                                          FALSE, loc[t].cred))
           [] o = "no_dir" ->
                /\ dirs' = dirs \ { id }
                /\ exes' = exes
                /\ Return(t, CreateResult(FALSE, id, "terminal64.exe not found",
                                          FALSE, loc[t].cred))
           [] o = "raise" ->
                /\ dirs' = dirs
                /\ exes' = exes
                /\ Return(t, CreateResult(FALSE, id, "unexpected error",
                                          FALSE, loc[t].cred))
    /\ UNCHANGED << sessions, now, session_id, mt5_connected, nextId,
                    sequential, app, worker, child, init_done, closed >>

\* every verdict _initialize_mt5 can reach, over what the vendor library does
InitVerdicts(sid) ==
    IF sid \notin dirs \/ sid \notin exes
    THEN { InitializeMt5(sid, [ k \in 1..max_retries |-> "ok" ], "ok") }
    ELSE { AccountCheck(r, acct) : r \in RetryVerdicts, acct \in AccountOutcomes }

\* _run_mt5_process (its result is ignored) and _initialize_mt5
\* (cfg, the files the previous step wrote, is looked at on that step only)
CreateInit(t) ==
    /\ pc[t] = "cs_init"
    /\ \E r \in InitVerdicts(session_id) :
         /\ mt5_connected' = r.conn
         /\ init_done' = IF r.ok THEN init_done \cup { loc[t].sid } ELSE init_done
         /\ Goto(t, "cs_finish", [ loc[t] EXCEPT !.init_ok = r.ok, !.err = r.err,
                                                  !.cfg = "none" ])
    /\ UNCHANGED << sessions, dirs, exes, now, session_id, nextId, sequential, app, worker, child, closed >>

\* if not init_success: _terminate_mt5_process (a no-op for an id that is not
\* stored), keep the directory, return the error; else store the Session
CreateFinish(t) ==
    /\ pc[t] = "cs_finish"
    /\ LET id == loc[t].sid IN
       IF StoresSession(loc[t].init_ok)
       THEN /\ sessions' = DictSet(sessions, id, NewSession(id, loc[t].cred, now))
            /\ dirs' = dirs
            /\ Return(t, CreateResult(TRUE, id, "", TRUE, loc[t].cred))
       ELSE /\ sessions' = sessions
            /\ dirs' = DirsAfterFailedInit(dirs, id)
            /\ Return(t, CreateResult(FALSE, id, InitFailureError(loc[t].err),
                                      TRUE, loc[t].cred))
    /\ UNCHANGED << exes, now, session_id, mt5_connected, nextId,
                    sequential, app, worker, child, init_done, closed >>

\* ------------------------------------------------------------- get_session

\* what a caller can pass as sid: a session id string, or the very value its
\* last create_session returned
GetArgs(t) ==
    { StrArg(i) : i \in Ids } \cup
    ( IF pc[t] = "done" /\ ret[t].op = "create_session" /\ ret[t].kind = "dict"
      THEN { DictArg(ret[t]) } ELSE {} )

\* a get_session that leaves the session as it found it
TouchNothing(s, t) == s

\* session._replace(last_accessed=datetime.now())
Touch(s, t) == [ s EXCEPT !.last_accessed = t ]

\* if sid not in self._sessions: raise KeyError
GetAbsent(a) ==
    [ op |-> "get_session", kind |-> "raise", exc |-> "KeyError", arg |-> a ]

\* `sid not in self._sessions` (a dict is unhashable: TypeError), then
\* session = self._sessions[sid]; updated_session = session._replace(...)
GetCall(t) ==
    /\ Ready(t)
    /\ \E a \in GetArgs(t) :
         IF a.type = "dict"
         THEN Return(t, [ op |-> "get_session", kind |-> "raise",
                          exc |-> "TypeError", arg |-> a ])
         ELSE IF a.id \notin Registered
         THEN Return(t, GetAbsent(a))
         ELSE Goto(t, "gs_write",
                   [ Frame EXCEPT !.sid = a.id, !.arg = a,
                                  !.s = Touch(sessions[a.id], now) ])
    /\ UNCHANGED << shared, now >>

\* self._sessions[sid] = updated_session; return updated_session
GetWrite(t) ==
    /\ pc[t] = "gs_write"
    /\ sessions' = DictSet(sessions, loc[t].sid, loc[t].s)
    /\ Return(t, [ op |-> "get_session", kind |-> "session",
                   val |-> loc[t].s, arg |-> loc[t].arg ])
    /\ UNCHANGED << dirs, exes, now, session_id, mt5_connected, nextId,
                    sequential, app, worker, child, init_done, closed >>

\* ----------------------------------------------------------- close_session

\* a close_session that reports success for an id it does not hold
CloseAbsentResultTrue == TRUE

\* if sid not in self._sessions: return False
CloseAbsentResult == FALSE

\* what close_session(i) returns; again tells that the caller's previous call
\* was a close_session(i) that returned True
CloseResult(i, v, again) ==
    [ op |-> "close_session", kind |-> "bool", val |-> v, arg |-> StrArg(i),
      again |-> again ]

\* the result caller t holds is close_session(i) = True
JustClosed(t, i) ==
    /\ ret[t].op = "close_session"
    /\ ret[t].kind = "bool"
    /\ ret[t].arg = StrArg(i)
    /\ ret[t].val

\* close_session returns v: to its caller, or to cleanup_old_sessions' loop
CloseReturn(t, l, v) ==
    IF l.caller = "none"
    THEN Return(t, CloseResult(l.sid, v, JustClosed(t, l.sid)))
    ELSE Goto(t, "co_loop", l)

\* pop raises KeyError, which neither close_session nor cleanup_old_sessions
\* catches
CloseRaise(t, l) ==
    Return(t, [ op |-> IF l.caller = "none" THEN "close_session" ELSE l.caller,
                kind |-> "raise", exc |-> "KeyError", arg |-> StrArg(l.sid) ])

\* if sid not in self._sessions: return False
CloseCheck(t, l) ==
    IF l.sid \notin Registered
    THEN CloseReturn(t, l, CloseAbsentResult)
    ELSE Goto(t, "cl_pop", l)

CloseCallOn(t, i) ==
    /\ Ready(t)
    /\ CloseCheck(t, [ Frame EXCEPT !.sid = i ])
    /\ UNCHANGED << shared, now >>

CloseCall(t) == \E i \in Ids : CloseCallOn(t, i)

\* session = self._sessions.pop(sid)
ClosePop(t) ==
    /\ pc[t] = "cl_pop"
    /\ IF loc[t].sid \in Registered
       THEN /\ sessions' = DictPop(sessions, loc[t].sid)
            /\ Goto(t, "cl_teardown", [ loc[t] EXCEPT !.s = sessions[loc[t].sid].proc ])
       ELSE /\ sessions' = sessions
            /\ CloseRaise(t, loc[t])
    /\ UNCHANGED << dirs, exes, now, session_id, mt5_connected, nextId,
                    sequential, app, worker, child, init_done, closed >>

\* mt5.shutdown(); session.proc is None; shutil.rmtree(session_dir); each in
\* its own try/except; return True
CloseTeardown(t) ==
    /\ pc[t] = "cl_teardown"
    /\ \E sd \in { "ok", "raise" }, rm \in { "ok", "raise" } :
         /\ mt5_connected' = IF sd = "ok" THEN FALSE ELSE mt5_connected
         /\ dirs' = IF rm = "ok" THEN dirs \ { loc[t].sid } ELSE dirs
         /\ exes' = IF rm = "ok" THEN exes \ { loc[t].sid } ELSE exes
    /\ closed' = closed \cup { loc[t].sid }
    /\ CloseReturn(t, loc[t], TRUE)
    /\ UNCHANGED << sessions, now, session_id, nextId, sequential, app, worker, child, init_done >>

\* ---------------------------------------------------------- destroy_session

\* what destroy_session(i) returns
DestroyResult(i, v) ==
    [ op |-> "destroy_session", kind |-> "bool", val |-> v, arg |-> StrArg(i) ]

\* session.proc.poll() on a session whose proc is None
DestroyRaise(i) ==
    [ op |-> "destroy_session", kind |-> "raise", exc |-> "AttributeError",
      arg |-> StrArg(i) ]

\* destroy_session(session_id): False for an unknown id; otherwise
\* _terminate_mt5_process reads session.proc.poll() outside its try block,
\* then terminates (and kills) the process and pops the entry, or returns
\* False if that raises; config.clean_sessions is False, so the directory
\* stays
DestroyCall(t) ==
    /\ Ready(t)
    /\ \E i \in Ids :
         IF i \notin Registered
         THEN /\ Return(t, DestroyResult(i, FALSE))
              /\ UNCHANGED sessions
         ELSE IF sessions[i].proc = "None"
         THEN /\ Return(t, DestroyRaise(i))
              /\ UNCHANGED sessions
         ELSE \E o \in { "exited", "terminated", "killed", "raise" } :
                /\ sessions' = IF o = "raise" THEN sessions ELSE DictPop(sessions, i)
                /\ Return(t, DestroyResult(i, o # "raise"))
    /\ UNCHANGED << dirs, exes, now, session_id, mt5_connected, nextId,
                    sequential, app, worker, child, init_done, closed >>

\* ---------------------------------------------------- cleanup_old_sessions

\* an expiry test that counts idle time equal to the threshold as expired
ExpiredAtThreshold(s, t, max_age) == (t - s.last_accessed) >= max_age

\* (now - session.last_accessed).total_seconds() > max_age_seconds
Expired(s, t, max_age) == (t - s.last_accessed) > max_age

\* the keys of a dict as a list
RECURSIVE KeyList(_)
KeyList(S) ==
    IF S = {} THEN << >>
    ELSE LET m == CHOOSE x \in S : \A y \in S : x <= y
         IN << m >> \o KeyList(S \ { m })

\* now = datetime.now(); sessions_to_close = [sid for ... if expired]
CleanupCall(t) ==
    /\ Ready(t)
    /\ \E m \in 0..MaxAge :
         LET found == { i \in Registered : Expired(sessions[i], now, m) } IN
         Goto(t, "co_loop", [ Frame EXCEPT !.found = found, !.todo = KeyList(found),
                                          !.max_age = m,
                                          !.caller = "cleanup_old_sessions" ])
    /\ UNCHANGED << shared, now >>

\* return len(sessions_to_close) / return len(session_ids)
LoopResult(l) ==
    IF l.caller = "cleanup_old_sessions"
    THEN [ op |-> l.caller, kind |-> "int", val |-> Cardinality(l.found),
           max_age |-> l.max_age ]
    ELSE [ op |-> l.caller, kind |-> "int", val |-> Cardinality(l.found) ]

\* for sid in sessions_to_close: self.close_session(sid), and the same loop
\* of close_all_sessions over session_ids
CleanupLoop(t) ==
    /\ pc[t] = "co_loop"
    /\ IF loc[t].todo = << >>
       THEN Return(t, LoopResult(loc[t]))
       ELSE CloseCheck(t, [ loc[t] EXCEPT !.sid = Head(loc[t].todo),
                                          !.todo = Tail(loc[t].todo) ])
    /\ UNCHANGED << shared, now >>

\* ------------------------------------------------------ close_all_sessions

\* session_ids = list(self._sessions.keys())
CloseAllCall(t) ==
    /\ Ready(t)
    /\ Goto(t, "co_loop", [ Frame EXCEPT !.found = Registered,
                                         !.todo = KeyList(Registered),
                                         !.caller = "close_all_sessions" ])
    /\ UNCHANGED << shared, now >>

\* -------------------------------------------------------- get_all_sessions

\* datetime.isoformat()
IsoFormat(t) == << "iso", t >>

\* a listing that hands out the session's process handle as well
ListingWithProc(s, t) ==
    [ id |-> s.id, login |-> s.login, server |-> s.server, port |-> "None",
      proc |-> s.proc,
      mt5_path |-> << "terminal64.exe of", s.id >>,
      created_at |-> IsoFormat(s.created_at),
      last_accessed |-> IsoFormat(s.last_accessed),
      age_seconds |-> t - s.created_at ]

\* one entry of the dict get_all_sessions returns
Listing(s, t) ==
    [ id |-> s.id, login |-> s.login, server |-> s.server, port |-> "None",
      mt5_path |-> << "terminal64.exe of", s.id >>,
      created_at |-> IsoFormat(s.created_at),
      last_accessed |-> IsoFormat(s.last_accessed),
      age_seconds |-> t - s.created_at ]

ListCall(t) ==
    /\ Ready(t)
    /\ Return(t, [ op |-> "get_all_sessions", kind |-> "snapshot",
                   val |-> [ i \in Registered |-> Listing(sessions[i], now) ] ])
    /\ UNCHANGED << shared, now >>

\* --------------------------------------------- routes: command dispatch

\* the attributes of a Session: the fields of the NamedTuple
SessionAttrs ==
    { "id", "login", "server", "proc", "port", "mt5_path", "created_at",
      "last_accessed" }

\* execute_command, after get_session returned the session:
\* result = session.send_command(command)
SendCommand(t) ==
    /\ pc[t] = "done"
    /\ ret[t].op = "get_session"
    /\ ret[t].kind = "session"
    /\ Return(t, IF "send_command" \in SessionAttrs
                 THEN [ op |-> "send_command", kind |-> "response", arg |-> ret[t].arg ]
                 ELSE [ op |-> "send_command", kind |-> "raise",
                        exc |-> "AttributeError", arg |-> ret[t].arg ])
    /\ UNCHANGED << shared, now >>

\* the status of the response to a per-session request whose get_session
\* ended as r: `if not session: raise HTTPException(status_code=404)`, and an
\* exception that leaves the handler is answered with 500
HttpStatus(r) ==
    CASE r.kind = "raise" -> 500
      [] r.kind = "none"  -> 404
      [] OTHER            -> 200

\* the response of execute_command (and of delete_session up to its
\* session.cleanup()): get_session raised or returned None, or send_command
\* came back; absent tells that get_session found the id unregistered
\* (KeyError, raised for a str that is not a key)
RouteResponse(t) ==
    /\ pc[t] = "done"
    /\ \/ ret[t].op = "get_session" /\ ret[t].kind # "session"
       \/ ret[t].op = "send_command"
    /\ Return(t, [ op |-> "http_response", kind |-> "http",
                   status |-> HttpStatus(ret[t]),
                   absent |-> ( ret[t].op = "get_session" /\ ret[t].kind = "raise"
                                /\ ret[t].arg.type = "str" ),
                   arg |-> ret[t].arg ])
    /\ UNCHANGED << shared, now >>

\* ------------------------------ the token check (routes.py, app/main.py)

\* settings.bridge_token
BridgeToken == "bridge_token"

\* the x-api-token header of a request: absent, the configured token, another
Tokens == { "absent", BridgeToken, "invalid_token" }

\* endpoints of the two applications: how the handler declares the header
\* (Header(None) in routes.py, Header(...) in app/main.py, not at all), whether
\* its first statement is check_token / verify_token, and whether it takes a
\* request body (a pydantic model)
Endpoints ==
    { [ app |-> "main", route |-> "POST /v5/session/create",
        header |-> "optional", checks |-> TRUE, body |-> TRUE ],
      [ app |-> "main", route |-> "GET /v5/session/list",
        header |-> "optional", checks |-> TRUE, body |-> FALSE ],
      [ app |-> "main", route |-> "GET /v5/debug/whoami",
        header |-> "none", checks |-> FALSE, body |-> FALSE ],
      [ app |-> "app.main", route |-> "POST /v5/session/create",
        header |-> "required", checks |-> TRUE, body |-> TRUE ],
      [ app |-> "app.main", route |-> "GET /v5/session/list",
        header |-> "required", checks |-> TRUE, body |-> FALSE ] }

\* the status a request is answered with before its handler reaches the
\* session manager, 0 when it gets that far: the declared parameters are
\* validated before the handler's body runs (a missing required header or an
\* invalid body is answered with 422), then the token check raises
\* HTTPException(status_code=401); a handler without manager call returns 200
RequestStatus(ep, token, body_ok) ==
    IF ( ep.header = "required" /\ token = "absent" ) \/ ( ep.body /\ ~ body_ok )
    THEN 422
    ELSE IF ep.checks /\ token # BridgeToken THEN 401
    ELSE IF ~ ep.checks THEN 200
    ELSE 0

\* a request without the configured token arrives on thread t and is answered
TokenCheck(t) ==
    /\ Ready(t)
    /\ \E ep \in Endpoints, token \in Tokens \ { BridgeToken }, body_ok \in BOOLEAN :
         /\ ep.body \/ body_ok
         /\ RequestStatus(ep, token, body_ok) # 0
         /\ Return(t, [ op |-> "http_response", kind |-> "auth",
                        status |-> RequestStatus(ep, token, body_ok),
                        absent |-> FALSE, token |-> token, app |-> ep.app,
                        route |-> ep.route, body_ok |-> body_ok ])
    /\ UNCHANGED << shared, now >>

\* -------------------------------------------------------- specifications

\* one step of a call of caller t
Call(t) ==
    \/ CreateCall(t) \/ CreatePrepare(t) \/ CreateInit(t) \/ CreateFinish(t)
    \/ GetCall(t) \/ GetWrite(t)
    \/ CloseCall(t) \/ ClosePop(t) \/ CloseTeardown(t)
    \/ CleanupCall(t) \/ CleanupLoop(t)
    \/ ListCall(t)

Next == Tick \/ \E t \in Threads : Call(t) \/ CloseAllCall(t) \/ Respond(t)

\* the callers are threads of one process and nothing orders them
Spec == Init /\ [][Next]_vars

\* one caller makes its calls one after the other
SeqInit == Start(TRUE, NoServer, NoWorker) /\ child = NoChild

SeqNext == Tick \/ Call(1)

SeqSpec == SeqInit /\ [][SeqNext]_vars

\* one caller that also uses destroy_session
TeardownNext == Tick \/ Call(1) \/ DestroyCall(1)

TeardownSpec == SeqInit /\ [][TeardownNext]_vars

\* callers on threads that create sessions at the same time
ConcCreateNext ==
    \E t \in Threads :
       \/ CreateCallUpTo(t, MaxIds)
       \/ CreatePrepare(t)
       \/ CreateInit(t)
       \/ CreateFinish(t)

ConcCreateSpec == Init /\ [][ConcCreateNext]_vars

\* ------------------------------------------- the application (src/main.py)

\* the thread of the event loop, which runs the startup and shutdown handlers
\* and the cleanup task; the other threads serve requests
EventLoop == NumThreads
Handlers == Threads \ { EventLoop }

\* everything but the application's lifecycle
manager == << sessions, dirs, exes, now, session_id, mt5_connected, nextId,
              pc, loc, ret, sequential, worker, child, init_done, closed >>

\* the methods SessionManager defines
ManagerMethods ==
    { "create_session", "get_session", "close_session", "get_all_sessions",
      "cleanup_old_sessions", "close_all_sessions", "destroy_session" }

\* startup_event: init_session_manager, then
\* app.state.cleanup_task = asyncio.create_task(cleanup_old_sessions())
StartupEvent ==
    /\ app.phase = "starting"
    /\ \E o \in { "ok", "template_error", "template_raise", "raise" } :
         /\ app' = IF o \in { "ok", "template_error" }
                   THEN [ phase |-> "up", cleanup_task |-> "pending" ]
                   ELSE [ phase |-> "failed", cleanup_task |-> "none" ]
         /\ dirs' = IF o = "template_raise" THEN dirs ELSE dirs \cup { TemplateDir }
         /\ exes' = IF o \in { "ok", "raise" } THEN exes \cup { TemplateDir } ELSE exes
    /\ UNCHANGED << sessions, now, session_id, mt5_connected, nextId,
                    pc, loc, ret, sequential, worker, child, init_done, closed >>

\* the task main.cleanup_old_sessions: one call of
\* session_manager.cleanup_old_sessions(settings.session_inactive_timeout)
ReaperStep ==
    /\ app.phase = "up"
    /\ app.cleanup_task = "pending"
    /\ \/ pc[EventLoop] = "idle" /\ CleanupCall(EventLoop)
       \/ CleanupLoop(EventLoop)
       \/ ClosePop(EventLoop)
       \/ CloseTeardown(EventLoop)

\* the call returned or raised: `if expired_sessions and len(expired_sessions)
\* > 0` (len of an int raises TypeError), every exception is logged; the task
\* ends here, nothing schedules another run
ReaperFinish ==
    /\ app.phase = "up"
    /\ app.cleanup_task = "pending"
    /\ pc[EventLoop] = "done"
    /\ app' = [ app EXCEPT !.cleanup_task =
                   IF ret[EventLoop].kind = "int" /\ ret[EventLoop].val = 0
                   THEN "finished" ELSE "failed" ]
    /\ pc' = [ pc EXCEPT ![EventLoop] = "idle" ]
    /\ ret' = [ ret EXCEPT ![EventLoop] = NoRet ]
    /\ UNCHANGED << sessions, dirs, exes, now, session_id, mt5_connected, nextId,
                    loc, sequential, worker, child, init_done, closed >>

\* a request handler of routes.py running on thread t: the manager methods
\* the routes call, and the dispatch of a command
HandlerStep(t) ==
    /\ app.phase = "up"
    /\ \/ CreateCall(t) \/ CreatePrepare(t) \/ CreateInit(t) \/ CreateFinish(t)
       \/ GetCall(t) \/ GetWrite(t)
       \/ SendCommand(t) \/ RouteResponse(t) \/ TokenCheck(t)
       \/ CloseAllCall(t) \/ CleanupLoop(t) \/ ClosePop(t) \/ CloseTeardown(t)
       \/ Respond(t)

\* shutdown_event, run by the event loop once the requests in flight are
\* served: cleanup_task.cancel(), then
\* `await app.state.session_manager.cleanup()` in a try/except that logs
ShutdownEvent ==
    /\ app.phase = "up"
    /\ \A t \in Threads : Ready(t)
    /\ app' = [ phase |-> "stopped",
                cleanup_task |-> IF app.cleanup_task = "pending" THEN "cancelled"
                                 ELSE app.cleanup_task ]
    /\ sessions' = IF "cleanup" \in ManagerMethods THEN EmptyDict ELSE sessions
    /\ UNCHANGED << dirs, exes, now, session_id, mt5_connected, nextId,
                    pc, loc, ret, sequential, worker, child, init_done, closed >>

ServerInit ==
    /\ Start(FALSE, [ phase |-> "starting", cleanup_task |-> "none" ], NoWorker)
    /\ child = NoChild

ServerNext ==
    \/ StartupEvent
    \/ ReaperStep
    \/ ReaperFinish
    \/ \E t \in Handlers : HandlerStep(t)
    \/ ShutdownEvent
    \/ Tick

\* the event loop runs its handlers and a task that is ready, and time passes
ServerSpec ==
    /\ ServerInit
    /\ [][ServerNext]_vars
    /\ WF_vars(StartupEvent)
    /\ WF_vars(ReaperStep)
    /\ WF_vars(ReaperFinish)
    /\ WF_vars(Tick)

\* ------------------------------------------- the worker (src/worker.py)
\* The worker of a session talking over its input and output stream: stdin and
\* stdout, or the two streams made of the IPC socket (--ipc-port).

\* everything but the worker
others == << sessions, dirs, exes, now, session_id, mt5_connected, nextId,
             pc, loc, ret, sequential, app, child, init_done, closed >>

\* the request lines a worker can be sent: a command it knows, one it does
\* not know, a line that is not JSON, JSON that is not an object, terminate
RequestKinds == { "command", "unknown", "badjson", "nondict", "terminate" }

\* the branches of the command dispatch
CommandTypes == { "candles", "order_send", "quote", "positions_get", "symbol_select" }

\* req.get("type") of requests the dispatch does not know; a request without
\* "type" has cmd_type None, formatted as "None"
UnknownTypes == { "balance", "None" }

\* req.get("type") of a request of kind k
TypesOf(k) ==
    CASE k = "command"   -> CommandTypes
      [] k = "unknown"   -> UnknownTypes
      [] k = "terminate" -> { "terminate" }
      [] OTHER           -> { "none" }

\* the texts of the error messages, as json.dumps writes them (ensure_ascii)
NoError == << "null", "" >>
UnknownCommandText == "\\u4e0d\\u660e\\u306a\\u30b3\\u30de\\u30f3\\u30c9: "
JsonDecodeText == "JSON\\u30c7\\u30b3\\u30fc\\u30c9\\u30a8\\u30e9\\u30fc: "
UnexpectedText == "\\u4e88\\u671f\\u305b\\u306c\\u30a8\\u30e9\\u30fc: "
FailedText == "\\u306b\\u5931\\u6557: "

\* the error text without the requested type
UnknownCommandErrorBare(cmd_type) == << UnknownCommandText, "" >>

\* f"不明なコマンド: {cmd_type}"
UnknownCommandError(cmd_type) == << UnknownCommandText, cmd_type >>

\* an init message that never carries an error
InitErrorNull(o) == NoError

\* the "error" of the init message after mt5.initialize ended as o
InitError(o) ==
    CASE o = "ok"           -> NoError
      [] o = "false"        -> << "", "mt5.last_error()" >>
      [] o = "import_error" -> << "MetaTrader5 import error: ", "str(e)" >>
      [] OTHER              -> << "", "str(e)" >>

\* {"type": "init", "success": ok, "error": err, ...}
InitLine(ok, err) ==
    [ type |-> "init", success |-> ok, req |-> 0, cmd |-> "none", error |-> err ]

\* the line written for the k-th request: res, or the error message without
\* "type"
ResponseLine(k, cmd, ok, err) ==
    [ type |-> "response", success |-> ok, req |-> k, cmd |-> cmd, error |-> err ]

\* the branches in which a result of None is not a failure
NoneIsEmpty == { "candles", "positions_get" }

\* the vendor-library calls made for a request of the given kind
VendorCalls(kind) == IF kind = "command" THEN 1 ELSE 0

\* a worker that answers nothing
NoResponses(kind, cmd_type, k, v) == << >>

\* the lines the worker writes for request k of the given kind and type, the
\* vendor call ending as v
Responses(kind, cmd_type, k, v) ==
    CASE kind = "terminate" -> << >>
      [] kind = "badjson" ->
           << ResponseLine(k, "none", FALSE, << JsonDecodeText, "str(e)" >>) >>
      [] kind = "nondict" ->
           << ResponseLine(k, "none", FALSE, << UnexpectedText, "str(e)" >>) >>
      [] kind = "unknown" ->
           << ResponseLine(k, cmd_type, FALSE, UnknownCommandError(cmd_type)) >>
      [] OTHER ->
           IF v = "raise"
           THEN << ResponseLine(k, cmd_type, FALSE, << "", "str(e)" >>) >>
           ELSE IF v = "ok" \/ cmd_type \in NoneIsEmpty
           THEN << ResponseLine(k, cmd_type, TRUE, NoError) >>
           ELSE << ResponseLine(k, cmd_type, FALSE,
                                << cmd_type, FailedText \o "mt5.last_error()" >>) >>

\* import MetaTrader5, main() up to the init message: mt5.initialize true,
\* false (init failure printed, sys.exit(1)) or raising (import error, or the
\* __main__ guard prints the init failure)
WorkerStart ==
    /\ worker.pc = "start"
    /\ \E o \in { "ok", "false", "raise", "import_error" } :
         worker' = [ worker EXCEPT !.out = << InitLine(o = "ok", InitError(o)) >>,
                                   !.init = o,
                                   !.exit = IF o = "ok" THEN "none" ELSE "1",
                                   !.pc = IF o = "ok" THEN "read" ELSE "exited" ]
    /\ UNCHANGED others

\* a worker that goes on reading after a terminate request
AfterHandleNoBreak(req) == "read"

\* if req.get("type") == "terminate": break; otherwise the loop goes on
AfterHandle(req) == IF req = "terminate" THEN "shutdown" ELSE "read"

\* line = in_stream.readline(): end of input, the next request line, or an
\* exception of the stream (a broken socket raises on every later read too)
WorkerRead ==
    /\ worker.pc = "read"
    /\ \/ /\ ~ worker.broken
          /\ worker' = [ worker EXCEPT !.pc = "shutdown", !.req = "none",
                                       !.cmd_type = "none" ]
       \/ worker' = [ worker EXCEPT !.pc = "report", !.req = "none",
                                    !.cmd_type = "none", !.broken = TRUE ]
       \/ /\ ~ worker.broken
          /\ worker.reads < MaxRequests
          /\ \E k \in RequestKinds : \E ty \in TypesOf(k) :
               worker' = [ worker EXCEPT !.pc = "handle", !.req = k,
                                         !.cmd_type = ty,
                                         !.reads = worker.reads + 1 ]
    /\ UNCHANGED others

\* the body of the loop for the line read: json.loads, the terminate test,
\* the command, the write of the response
WorkerHandle ==
    /\ worker.pc = "handle"
    /\ \E v \in { "ok", "none", "raise" } :
         worker' = [ worker EXCEPT
                       !.out = worker.out \o
                               Responses(worker.req, worker.cmd_type, worker.reads, v),
                       !.calls = worker.calls + VendorCalls(worker.req),
                       !.pc = AfterHandle(worker.req) ]
    /\ UNCHANGED others

\* the outer `except Exception` after readline raised: the error message is
\* written to out_stream, whose write raises as well on the broken socket;
\* the fallback goes to sys.stdout, which is not the channel, and every
\* failure is passed over; the loop goes on
WorkerReport ==
    /\ worker.pc = "report"
    /\ worker' = [ worker EXCEPT !.pc = "read" ]
    /\ UNCHANGED others

\* mt5.shutdown() after the loop; if it raises, main() raises and the
\* __main__ guard writes {"type": "init", "success": False, ...} and exits 1
WorkerShutdown ==
    /\ worker.pc = "shutdown"
    /\ \E o \in { "ok", "raise" } :
         worker' = [ worker EXCEPT
                       !.out = IF o = "ok" THEN worker.out
                               ELSE Append(worker.out, InitLine(FALSE, InitError(o))),
                       !.shutdowns = worker.shutdowns + 1,
                       !.exit = IF o = "ok" THEN "0" ELSE "1",
                       !.pc = "exited" ]
    /\ UNCHANGED others

WorkerInit ==
    /\ Start(FALSE, NoServer, [ NoWorker EXCEPT !.pc = "start" ])
    /\ child = NoChild

WorkerNext ==
    WorkerStart \/ WorkerRead \/ WorkerHandle \/ WorkerReport \/ WorkerShutdown

WorkerSpec == WorkerInit /\ [][WorkerNext]_vars

\* readline on the broken stream: it does not block, it raises
BrokenRead == worker.broken /\ WorkerRead

\* the worker is one thread that goes on whenever it is not blocked: every
\* vendor call and every write returns, and a read returns when it raises
\* (a read of a sound stream blocks until the parent sends a line or closes)
WorkerLiveSpec ==
    /\ WorkerInit
    /\ [][WorkerNext]_vars
    /\ WF_vars(WorkerStart)
    /\ WF_vars(WorkerHandle)
    /\ WF_vars(WorkerReport)
    /\ WF_vars(WorkerShutdown)
    /\ WF_vars(BrokenRead)

\* --------------------- the session process (src/app/mt5_session_process.py)
\* MT5SessionProcess.run: the command loop over the pipe, and cleanup, run
\* when the loop ends.

\* everything but the session process
rest == << sessions, dirs, exes, now, session_id, mt5_connected, nextId,
           pc, loc, ret, sequential, app, worker, init_done, closed >>

\* an executable path: the directory it lies in (this session's, another
\* session's, elsewhere) and whether it is spelled in upper case; dir "none"
\* is proc.info['exe'] = None
ExePath(dir, upper) == [ dir |-> dir, upper |-> upper ]

ExePaths ==
    { ExePath(d, u) : d \in { "own", "other" }, u \in BOOLEAN }
        \cup { ExePath("elsewhere", FALSE), ExePath("none", FALSE) }

\* self.mt5_path: the terminal64.exe of this session's directory
Mt5Path == ExePath("own", FALSE)

\* os.path.normcase: lower case (and backslashes) on Windows, the path itself
\* elsewhere
NormCase(p, platform) == IF platform = "Windows" THEN [ p EXCEPT !.upper = FALSE ] ELSE p

\* a cleanup that takes every terminal64.exe for its own
ExeMatchesByName(exe, mt5_path, platform) == exe.dir \in { "own", "other" }

\* exe and os.path.normcase(exe) == os.path.normcase(self.mt5_path)
ExeMatches(exe, mt5_path, platform) ==
    /\ exe.dir # "none"
    /\ NormCase(exe, platform) = NormCase(mt5_path, platform)

\* what a process does when it is sent terminate: exit within the wait, stay
\* alive (psutil.TimeoutExpired), or terminate() raises NoSuchProcess or
\* AccessDenied
TerminateOutcomes == { "exits", "hangs", "raises" }

\* the process tables psutil.process_iter can yield
ProcTables ==
    UNION { [ 1..n -> [ exe : ExePaths, on_terminate : TerminateOutcomes ] ] :
              n \in 0..MaxProcs }

\* the branches of handle_command, and types it does not know (a command
\* without 'type' has cmd_type None)
ChildCommandTypes ==
    { "initialize", "order_send", "positions_get", "symbol_select", "candles" }
ChildUnknownTypes == { "balance", "None" }

\* how the vendor call of a command can end: a result, None or False (for
\* candles: no timeframe of that name, no call is made), an exception, and
\* for initialize a missing terminal64.exe (mt5.initialize is not called)
VendorOutcomes(cmd_type) ==
    IF cmd_type = "initialize" THEN { "ok", "false", "raise", "no_file" }
    ELSE { "ok", "false", "raise" }

\* the texts of the session process, written as json.dumps would
NotInitializedText ==
    "MT5\\u304c\\u521d\\u671f\\u5316\\u3055\\u308c\\u3066\\u3044\\u307e\\u305b\\u3093"
InitFailedText == "MT5\\u306e\\u521d\\u671f\\u5316\\u306b\\u5931\\u6557: "
BadTimeframeText == "\\u4e0d\\u6b63\\u306a\\u30bf\\u30a4\\u30e0\\u30d5\\u30ec\\u30fc\\u30e0: "

\* {'success': ok, 'error': err}
ChildAnswer(ok, err) == [ success |-> ok, error |-> err ]

\* a process that refuses nothing
RefusedNever(cmd_type, initialized) == FALSE

\* if not self.initialized: return {'success': False, ...}, which comes after
\* the branch of initialize
Refused(cmd_type, initialized) == cmd_type # "initialize" /\ ~ initialized

\* the vendor-library calls handle_command makes: for initialize,
\* mt5.initialize (unless terminal64.exe is missing) and mt5.last_error after
\* a failure (in initialize_mt5 when initialize returned False, and in
\* handle_command); for a refused or unknown command none; for candles with a bad
\* timeframe none; otherwise the call of the branch, and mt5.last_error after
\* a failed symbol_select
ChildVendorCalls(cmd_type, initialized, v) ==
    IF cmd_type = "initialize"
    THEN CASE v = "ok" -> 1 [] v = "no_file" -> 1 [] v = "raise" -> 2 [] OTHER -> 3
    ELSE IF Refused(cmd_type, initialized) THEN 0
    ELSE IF cmd_type \notin ChildCommandTypes THEN 0
    ELSE IF cmd_type = "candles" /\ v = "false" THEN 0
    ELSE IF cmd_type = "symbol_select" /\ v = "false" THEN 2
    ELSE 1

\* what handle_command returns
HandleCommand(cmd_type, initialized, v) ==
    IF cmd_type = "initialize"
    THEN IF v = "ok" THEN ChildAnswer(TRUE, NoError)
         ELSE ChildAnswer(FALSE, << InitFailedText, "mt5.last_error()" >>)
    ELSE IF Refused(cmd_type, initialized)
    THEN ChildAnswer(FALSE, << NotInitializedText, "" >>)
    ELSE IF cmd_type \notin ChildCommandTypes
    THEN ChildAnswer(FALSE, UnknownCommandError(cmd_type))
    ELSE IF v = "raise" THEN ChildAnswer(FALSE, << "", "str(e)" >>)
    ELSE IF v = "ok" \/ cmd_type \in { "order_send", "positions_get" }
    THEN ChildAnswer(TRUE, NoError)
    ELSE IF cmd_type = "candles"
    THEN ChildAnswer(FALSE, << BadTimeframeText, "timeframe" >>)
    ELSE ChildAnswer(FALSE, << "symbol_select" \o FailedText, "mt5.last_error()" >>)

\* self.initialized after handle_command
InitializedAfter(cmd_type, initialized, v) ==
    IF cmd_type = "initialize" /\ v = "ok" THEN TRUE ELSE initialized

\* the loop is left: the finally clause of run() is next
ChildLeave(way) == [ child EXCEPT !.pc = "finally", !.cmd = "none", !.way = way ]

\* connection.poll(timeout=1.0) and connection.recv(): the parent closed the
\* pipe (EOFError), poll or recv raise something else, a terminate command
\* (break), something that is not a dict (command.get raises
\* AttributeError), or a command for handle_command
ChildPoll ==
    /\ child.pc = "poll"
    /\ \/ \E w \in { "closed", "error" } : child' = ChildLeave(w)
       \/ /\ child.n < MaxCommands
          /\ \/ child' = [ ChildLeave("terminate") EXCEPT !.n = child.n + 1 ]
             \/ child' = [ ChildLeave("error") EXCEPT !.n = child.n + 1 ]
             \/ \E ty \in ChildCommandTypes \cup ChildUnknownTypes :
                  child' = [ child EXCEPT !.pc = "handle", !.cmd = ty,
                                          !.n = child.n + 1 ]
    /\ UNCHANGED rest

\* result = self.handle_command(command); self.connection.send(result),
\* which raises when the pipe is broken
ChildHandle ==
    /\ child.pc = "handle"
    /\ \E v \in VendorOutcomes(child.cmd), snd \in { "ok", "raise" } :
         LET c == [ child EXCEPT
                      !.last = HandleCommand(child.cmd, child.initialized, v),
                      !.calls = child.calls
                                + ChildVendorCalls(child.cmd, child.initialized, v),
                      !.vendor = IF child.cmd = "initialize" THEN v ELSE child.vendor,
                      !.initialized = InitializedAfter(child.cmd, child.initialized, v) ]
         IN  child' = IF snd = "ok"
                      THEN [ c EXCEPT !.pc = "poll", !.sent = child.sent + 1 ]
                      ELSE [ c EXCEPT !.pc = "finally", !.way = "error" ]
    /\ UNCHANGED rest

\* cleanup(): if self.initialized: mt5.shutdown(); self.initialized = False;
\* an exception of mt5.shutdown() ends the cleanup in the outer handler
ChildCleanup ==
    /\ child.pc = "finally"
    /\ \E sd \in { "ok", "raise" } :
         LET c == [ child EXCEPT
                      !.cleanups = child.cleanups + 1,
                      !.shutdowns = IF child.initialized THEN child.shutdowns + 1
                                    ELSE child.shutdowns ]
         IN  child' = IF child.initialized /\ sd = "ok"
                      THEN [ c EXCEPT !.pc = "scan", !.initialized = FALSE, !.k = 1 ]
                      ELSE [ c EXCEPT !.pc = "done" ]
    /\ UNCHANGED rest

\* one round of `for proc in psutil.process_iter(['pid', 'exe'])`:
\* proc.terminate(), proc.wait(timeout=5), proc.kill() after TimeoutExpired
ChildScan ==
    /\ child.pc = "scan"
    /\ child.k <= Len(child.procs)
    /\ LET p == child.procs[child.k] IN
       child' = IF ExeMatches(p.exe, Mt5Path, child.platform)
                THEN [ child EXCEPT
                         !.k = child.k + 1,
                         !.terminated = child.terminated \cup { child.k },
                         !.killed = IF p.on_terminate = "hangs"
                                    THEN child.killed \cup { child.k }
                                    ELSE child.killed ]
                ELSE [ child EXCEPT !.k = child.k + 1 ]
    /\ UNCHANGED rest

\* the loop is over: the log handlers are closed, cleanup returns
ChildFinish ==
    /\ child.pc = "scan"
    /\ child.k > Len(child.procs)
    /\ child' = [ child EXCEPT !.pc = "done" ]
    /\ UNCHANGED rest

\* a session process at the end of its command loop, initialized or not, on
\* either platform, among any processes
ChildInit ==
    /\ Start(FALSE, NoServer, NoWorker)
    /\ \E i \in BOOLEAN, pf \in { "Windows", "posix" }, tb \in ProcTables :
         child = [ NoChild EXCEPT !.pc = "finally", !.initialized = i,
                                  !.platform = pf, !.procs = tb ]

ChildNext == ChildCleanup \/ ChildScan \/ ChildFinish

ChildSpec == ChildInit /\ [][ChildNext]_vars

\* the process tables of a session process followed from its start: no
\* process, or the session's own terminal
RunProcTables ==
    { tb \in ProcTables : Len(tb) <= 1 /\ \A j \in DOMAIN tb : tb[j].exe = Mt5Path }

\* a session process that enters run()
ChildRunInit ==
    /\ Start(FALSE, NoServer, NoWorker)
    /\ \E pf \in { "Windows", "posix" }, tb \in RunProcTables :
         child = [ NoChild EXCEPT !.pc = "poll", !.platform = pf, !.procs = tb ]

ChildRunNext == ChildPoll \/ ChildHandle \/ ChildCleanup \/ ChildScan \/ ChildFinish

ChildRunSpec == ChildRunInit /\ [][ChildRunNext]_vars

\* ------------------------------------------------------------ properties

\* caller t holds the result of a call of op
Holds(t, op) == pc[t] = "done" /\ ret[t].op = op

\* this step ends a call of caller t
Returns(t) == pc'[t] = "done" /\ ( pc[t] # "done" \/ ret'[t] # ret[t] )

\* the registry the call of caller t started from (calls made one by one)
SessionsBefore(t) == IF Ready(t) THEN sessions ELSE loc[t].pre.sessions

\* C1: after close_session(id) has returned for a registered id, the
\* directory of id does not exist, id is not registered, and a get_session(id)
\* made afterwards reports absence by returning None.
C1_ClosedIsGone ==
    \A i \in closed :
      /\ i \notin Registered
      /\ i \notin dirs
      /\ \A t \in Threads :
           ( Holds(t, "get_session") /\ ret[t].arg = StrArg(i) ) => ret[t].kind = "none"

\* C2: close_session never raises and returns True exactly for an id that was
\* registered; called again at once on the same id it returns False and
\* changes neither the registry nor the directories.
C2_CloseIdempotent ==
    [][ /\ ( Returns(1) /\ ret'[1].op = "close_session" ) =>
             /\ ret'[1].kind = "bool"
             /\ ret'[1].val = ( ret'[1].arg.id \in DOMAIN SessionsBefore(1) )
        /\ ( Returns(1) /\ ret'[1].op = "close_session" /\ ret'[1].kind = "bool"
             /\ ret'[1].again ) =>
             /\ ret'[1].val = FALSE
             /\ Ready(1)
             /\ UNCHANGED << sessions, dirs, exes >>
      ]_vars

C2_Witness ==
    /\ Holds(1, "close_session")
    /\ ret[1].kind = "bool"
    /\ ret[1].again /\ ~ ret[1].val
    /\ ret[1].arg.id \in closed

\* C3: get_session on an id that is not registered returns None; it does not
\* raise and leaves the registry as it is.
C3_AbsentGivesNone ==
    \A t \in Threads :
      ( Holds(t, "get_session") /\ ret[t].arg.type = "str"
        /\ ret[t].arg.id \notin Registered ) => ret[t].kind = "none"

\* C4 as stated: get_session leaves every field of every registered session,
\* last_accessed included, as it was.
C4_PureLookup ==
    [][ ( Returns(1) /\ ret'[1].op = "get_session" ) => sessions' = sessions ]_vars

\* C4: get_session on a registered id sets that session's last_accessed to
\* the time of the call and returns the session so updated; no other field,
\* no other session and no directory changes.
C4_LookupTouches ==
    [][ ( pc[1] = "gs_write" /\ Returns(1) ) =>
          LET i == loc[1].sid
              p == loc[1].pre
          IN /\ i \in DOMAIN p.sessions
             /\ sessions' = [ p.sessions EXCEPT ![i].last_accessed = p.now ]
             /\ ret'[1].kind = "session"
             /\ ret'[1].val = sessions'[i]
             /\ dirs' = p.dirs /\ exes' = p.exes
      ]_vars

C4_Witness ==
    /\ Holds(1, "get_session")
    /\ ret[1].kind = "session"
    /\ sessions[ret[1].arg.id] = ret[1].val
    /\ ret[1].val.last_accessed > ret[1].val.created_at

\* C5: while a session stays registered its last_accessed never decreases,
\* whatever the interleaving of the callers.
C5_LastAccessedMonotone ==
    [][ \A i \in Registered \cap DOMAIN sessions' :
          sessions'[i].last_accessed >= sessions[i].last_accessed ]_vars

\* C6: every registered session has had _initialize_mt5 return success, and
\* the id of a create_session still in progress is not registered.
C6_RegisteredInitialized ==
    /\ Registered \subseteq init_done
    /\ \A t \in Threads :
         pc[t] \in { "cs_prepare", "cs_init", "cs_finish" } => loc[t].sid \notin Registered

C6_Witness ==
    \E t \in Threads :
      /\ Holds(t, "create_session")
      /\ ret[t].kind = "dict" /\ ret[t].success
      /\ ret[t].session_id \in Registered \cap init_done

\* C7: a successful create_session returns the session id itself (a string).
C7_ReturnsId ==
    \A t \in Threads :
      ( Holds(t, "create_session") /\ ret[t].session_id \in Registered )
        => ret[t].kind = "str"

\* C8: when _initialize_mt5 fails, create_session returns a failure carrying
\* the message _initialize_mt5 gave, and the registry is as it was when the
\* call started, without the new id.
C8_InitFailureReported ==
    [][ ( pc[1] = "cs_finish" /\ ~ loc[1].init_ok /\ Returns(1) ) =>
          /\ ret'[1].op = "create_session" /\ ret'[1].kind = "dict"
          /\ ~ ret'[1].success
          /\ ret'[1].session_id = loc[1].sid
          /\ ret'[1].error = loc[1].err
          /\ ret'[1].error \in { AttemptError(o) : o \in AttemptOutcomes \ { "ok" } }
                               \cup { "vendor: account_info failed" }
          /\ sessions' = loc[1].pre.sessions
          /\ loc[1].sid \notin Registered'
      ]_vars

C8_Witness ==
    /\ Holds(1, "create_session")
    /\ ret[1].kind = "dict" /\ ~ ret[1].success
    /\ ret[1].error = "vendor: login failed"
    /\ Registered # {}
    /\ ret[1].session_id \notin Registered

\* a create_session that returned a failure for id
FailedCreate(t) ==
    /\ Holds(t, "create_session")
    /\ ret[t].kind = "raise" \/ ~ ret[t].success

C10_CleanupExact ==
    [][ ( pc[1] = "co_loop" /\ Returns(1) ) =>
          LET p == loc[1].pre
              old == { i \in DOMAIN p.sessions :
                         p.now - p.sessions[i].last_accessed > loc[1].max_age }
          IN /\ ret'[1].op = "cleanup_old_sessions" /\ ret'[1].kind = "int"
             /\ Registered' = ( DOMAIN p.sessions ) \ old
             /\ \A i \in Registered' :
                  /\ sessions'[i] = p.sessions[i]
                  /\ ( i \in dirs' ) = ( i \in p.dirs )
                  /\ ( i \in exes' ) = ( i \in p.exes )
      ]_vars

C10_Witness ==
    /\ Holds(1, "cleanup_old_sessions")
    /\ ret[1].kind = "int" /\ ret[1].val = 1
    /\ \E i \in Registered : now - sessions[i].last_accessed = ret[1].max_age
    /\ \E i \in closed : i \notin Registered

\* C11: cleanup_old_sessions returns the collection of the ids it removed.
C11_ReturnsRemovedIds ==
    \A t \in Threads :
      Holds(t, "cleanup_old_sessions") =>
        /\ ret[t].kind = "ids"
        /\ ret[t].val \subseteq closed
        /\ ret[t].val \cap Registered = {}

\* a session of the running server that has been idle for longer than any
\* threshold the reaper can be configured with
Stale(i) ==
    /\ app.phase = "up"
    /\ i \in Registered
    /\ now - sessions[i].last_accessed > MaxAge

\* C12: for the whole life of the server, a registered session that is not
\* accessed any more does not stay registered for ever once its idle time
\* exceeds the threshold: the reaper removes it.
C12_StaleEventuallyReaped == \A i \in Ids : []<>( ~ Stale(i) )

C14_CloseAllDrains ==
    [][ \A t \in Threads :
          ( pc[t] = "co_loop" /\ loc[t].caller = "close_all_sessions"
            /\ pc'[t] = "done" ) =>
            /\ ret'[t].op = "close_all_sessions" /\ ret'[t].kind = "int"
            /\ ret'[t].val = Cardinality(loc[t].found)
            /\ loc[t].found \cap DOMAIN sessions' = {}
            /\ loc[t].found \subseteq closed
      ]_vars

\* C15: concurrent close_session calls on one id never raise, and exactly one
\* of them returns True.
C15_CloseAtomic ==
    \A t \in Threads :
      Holds(t, "close_session") =>
        /\ ret[t].kind = "bool"
        /\ \A u \in Threads \ { t } :
             ( Holds(u, "close_session") /\ ret[u].kind = "bool"
               /\ ret[u].arg = ret[t].arg ) => ~ ( ret[t].val /\ ret[u].val )

\* C16: no registry operation fails because of a concurrent modification, and
\* the results are those of some sequential order: in particular an id whose
\* close_session returned True is not registered afterwards (ids are never
\* reused), and a lookup that finds a session is not followed by its return
\* from the dead.
C16_Linearizable ==
    /\ \A t \in Threads :
         ( pc[t] = "done" /\ ret[t].kind = "raise" ) =>
           ~ ( ret[t].op \in { "close_session", "cleanup_old_sessions",
                                "close_all_sessions" }
               /\ ret[t].exc = "KeyError" )
    /\ closed \cap Registered = {}

\* C17: a caller that dispatches a command to a registered session receives
\* the response to its request.
C17_CommandAnswered ==
    \A t \in Threads : Holds(t, "send_command") => ret[t].kind = "response"

\* C18: the directory of every registered session exists.
C18_RegisteredHasDir == Registered \subseteq dirs

\* C19: once the shutdown handler has finished no session is registered.
C19_DrainedAtShutdown == ( app.phase = "stopped" ) => ( Registered = {} )

\* C20: the first line the worker writes is the init message, every later
\* line is the response to one request, the k-th response answering the k-th
\* request, and the response to a request is written before the next request
\* is read.
C20_WorkerProtocol ==
    /\ worker.out # << >> => worker.out[1].type = "init"
    /\ \A j \in 2..Len(worker.out) :
         worker.out[j].type = "response" /\ worker.out[j].req = j - 1
    /\ worker.pc = "read" => Len(worker.out) = 1 + worker.reads

\* C21: once the worker has read a terminate request it writes nothing more
\* (no response for it), reads no further request, makes no further command
\* call, calls the vendor library's shutdown exactly once and exits with
\* status 0.
C21_TerminateStopsWorker ==
    [][ worker.req = "terminate" =>
          /\ worker'.out = worker.out
          /\ worker'.reads = worker.reads
          /\ worker'.calls = worker.calls
          /\ worker'.pc \in { "shutdown", "exited" }
          /\ worker'.pc = "exited" =>
               worker'.shutdowns = 1 /\ worker'.exit = "0" ]_vars

\* the line the worker wrote last
LastLine(w) == w.out[Len(w.out)]

\* the worker writes exactly one line on this step
WritesOneLine == /\ Len(worker'.out) = Len(worker.out) + 1
                 /\ SubSeq(worker'.out, 1, Len(worker.out)) = worker.out

\* C22: when mt5.initialize returns false the worker writes exactly one line,
\* the init message with success false and the vendor's last error, and exits
\* with status 1 without having read a request or made a command call.
C22_InitFailureExits ==
    worker.init = "false" =>
        /\ worker.out = << [ type |-> "init", success |-> FALSE, req |-> 0,
                             cmd |-> "none",
                             error |-> << "", "mt5.last_error()" >> ] >>
        /\ worker.pc = "exited" /\ worker.exit = "1"
        /\ worker.reads = 0 /\ worker.calls = 0 /\ worker.shutdowns = 0

C22_Witness == worker.init = "false" /\ worker.pc = "exited"

\* C23: for a line that is not valid JSON the worker writes exactly one
\* response, with success false and an error message, makes no vendor call,
\* and goes back to reading, where the next request is handled as usual.
C23_BadJsonAnswered ==
    [][ worker.pc = "handle" /\ worker.req = "badjson" =>
          /\ WritesOneLine
          /\ LastLine(worker').type = "response"
          /\ LastLine(worker').req = worker.reads
          /\ ~ LastLine(worker').success
          /\ LastLine(worker').error # NoError
          /\ worker'.calls = worker.calls
          /\ worker'.pc = "read" /\ worker'.exit = "none" ]_vars

\* a bad line was answered and the next request, a command, succeeded
C23_Witness ==
    \E j \in 2..(Len(worker.out) - 1) :
        /\ worker.out[j].error[1] = JsonDecodeText
        /\ worker.out[j + 1].success /\ worker.out[j + 1].cmd \in CommandTypes

C25_CleanupBestEffort ==
    [][ ( /\ Returns(1)
          /\ ret'[1].op \in { "close_session", "destroy_session" }
          /\ ret'[1].arg.id \in DOMAIN SessionsBefore(1) ) =>
          /\ ret'[1].kind = "bool"
          /\ ret'[1].arg.id \notin DOMAIN sessions' ]_vars

\* C26: a step of creating, closing or evicting a session leaves every other
\* session that stays registered as it was: its registry entry and its
\* directory are unchanged and the vendor connection it was initialized on
\* is still initialized.
C26_SessionsIsolated ==
    [][ \A b \in Registered \cap DOMAIN sessions' :
          pc[1] # "gs_write" =>
            /\ sessions'[b] = sessions[b]
            /\ b \in dirs => b \in dirs'
            /\ mt5_connected => mt5_connected' ]_vars

\* C27: the password is not retained.  What a create_session called with
\* another password (same login, same server) would have written and stored
\* is what this one wrote and stored: the configuration files, the registry
\* entry and its line in the listing.
C27_SecretNotRetained ==
    [][ \A pw \in Passwords :
          /\ ( pc[1] = "cs_prepare" /\ pc'[1] = "cs_init" ) =>
               \E hl \in BOOLEAN :
                 loc'[1].cfg = CreateMt5Config(loc[1].cred.login, pw,
                                               loc[1].cred.server, hl)
          /\ ( pc[1] = "cs_finish" /\ Returns(1) /\ ret'[1].success ) =>
               LET id == ret'[1].session_id
                   other == NewSession(id, [ loc[1].cred EXCEPT !.password = pw ], now)
               IN  /\ sessions'[id] = other
                   /\ Listing(sessions'[id], now) = Listing(other, now) ]_vars

\* a create_session called with the second password is about to store its
\* session, a first session being registered already
C27_Witness ==
    /\ pc[1] = "cs_finish"
    /\ loc[1].cred.password = "pw-2"
    /\ loc[1].init_ok
    /\ Registered # {}

\* C28: when the construction of the template failed on an I/O error (the
\* template is without terminal64.exe once startup is over), the manager's
\* construction did not raise, and every create_session made afterwards
\* returns an error and registers no session.
C28_TemplateFailureAborts ==
    ( app.phase \notin { "none", "starting" } /\ TemplateDir \notin exes ) =>
        /\ app.phase # "failed"
        /\ Registered = {}
        /\ \A t \in Threads : Holds(t, "create_session") => FailedCreate(t)

\* this process is the terminal of the session the cleanup belongs to
OwnTerminal(p) ==
    /\ p.exe.dir = "own"
    /\ child.platform = "Windows" \/ ~ p.exe.upper

\* C29: the cleanup signals only processes whose executable is the terminal
\* of its own session directory, never the terminal of another session, and
\* a process it sent terminate that did not exit within the wait is killed.
C29_OnlyOwnTerminal ==
    /\ \A j \in child.terminated \cup child.killed :
         OwnTerminal(child.procs[j]) /\ child.procs[j].exe.dir # "other"
    /\ child.killed \subseteq child.terminated
    /\ \A j \in child.terminated :
         ( child.k > j /\ child.procs[j].on_terminate = "hangs" ) => j \in child.killed

\* the cleanup is over: it killed a terminal of its own that hung and left a
\* terminal of another session alone
C29_Witness ==
    /\ child.pc = "done"
    /\ child.killed # {}
    /\ \E j \in 1..Len(child.procs) :
         child.procs[j].exe.dir = "other" /\ j \notin child.terminated

\* C30: a request for a session id that is not registered is answered with
\* status 404.
C30_UnknownSessionIs404 ==
    \A t \in Threads :
        ( Holds(t, "http_response") /\ ret[t].absent ) => ret[t].status = 404

\* C31: a request that carries no API token, or a token that is not the
\* configured bridge token, is answered with status 401, and answering it
\* changes neither the registry nor any session.
C31_BadTokenIs401 ==
    [][ \A t \in Threads :
          ( Returns(t) /\ ret'[t].op = "http_response" /\ ret'[t].kind = "auth" ) =>
            /\ ret'[t].token # BridgeToken
            /\ ret'[t].status = 401
            /\ UNCHANGED << sessions, dirs, exes, session_id, mt5_connected >> ]_vars

\* C32: destroy_session(id) on a registered id removes it from the registry
\* and returns True without raising; on an id that is not registered it
\* returns False and leaves the registry unchanged.
C32_DestroyRemoves ==
    [][ ( Returns(1) /\ ret'[1].op = "destroy_session" ) =>
          /\ ret'[1].kind = "bool"
          /\ IF ret'[1].arg.id \in Registered
             THEN ret'[1].val /\ ret'[1].arg.id \notin DOMAIN sessions'
             ELSE ~ ret'[1].val /\ sessions' = sessions ]_vars

\* C33: a session removed by close_session or cleanup_old_sessions does not
\* reappear: whatever the other callers do meanwhile (get_session on the same
\* id included), the ids cleanup_old_sessions closed are not registered when
\* it returns, and an id is not registered while a caller holds the True that
\* close_session returned for it.
C33_RemovedStaysGone ==
    [][ \A t \in Threads :
          /\ ( pc[t] = "co_loop" /\ loc[t].caller = "cleanup_old_sessions"
               /\ pc'[t] = "done" ) =>
                 loc[t].found \cap DOMAIN sessions' = {}
          /\ ( pc'[t] = "done" /\ ret'[t].op = "close_session"
               /\ ret'[t].kind = "bool" /\ ret'[t].val ) =>
                 ret'[t].arg.id \notin DOMAIN sessions' ]_vars

\* the messages of _initialize_mt5 for a session directory that does not
\* exist or holds no terminal64.exe
MissingErrors == { "session directory missing", "terminal64.exe missing" }

\* C34: when create_session calls run at the same time, the initialization
\* step of each call checks and uses the directory of that call's own id (so
\* it never reports a directory its call has just provisioned as missing),
\* and each call registers and returns its own id.
C34_OwnDirectory ==
    [][ \A t \in Threads :
          /\ ( pc[t] = "cs_init" /\ pc'[t] = "cs_finish" ) =>
               /\ session_id = loc[t].sid
               /\ loc'[t].err \notin MissingErrors
          /\ ( pc[t] = "cs_finish" /\ pc'[t] = "done" ) =>
               /\ ret'[t].session_id = loc[t].sid
               /\ ret'[t].success =>
                    /\ loc[t].sid \in DOMAIN sessions'
                    /\ sessions'[loc[t].sid].id = loc[t].sid ]_vars

\* C35: vendor initialization makes at most three attempts and stops at the
\* first one in which initialize and login both succeed (it succeeds exactly
\* when one of three attempts does), and whenever it returns failure the
\* vendor library is left shut down, whichever step failed or raised.
C35_FailureLeavesShutDown ==
    [][ ( pc[1] = "cs_init" /\ pc'[1] = "cs_finish" ) =>
          /\ \A att \in [ 1..max_retries -> AttemptOutcomes ] :
               RetryLoop(1, att, FALSE, "").ok = ( \E k \in 1..3 : att[k] = "ok" )
          /\ ~ loc'[1].init_ok => ~ mt5_connected' ]_vars

\* the worker has left its command loop for the end of its input or for a
\* terminate request
LoopLeft ==
    \/ worker.pc = "shutdown"
    \/ worker.pc = "handle" /\ worker.req = "terminate"

\* C36: after end-of-file on its input, or after a terminate request, the
\* worker eventually calls the vendor library's shutdown (each vendor call
\* returning).
C36_InputEndStopsWorker == LoopLeft ~> ( worker.shutdowns = 1 )

\* end of input after at least one request: shutdown was called and the
\* worker is gone
C36_Witness ==
    /\ worker.pc = "exited"
    /\ worker.init = "ok" /\ worker.req = "none"
    /\ worker.reads > 0
    /\ worker.shutdowns = 1

\* C37: when every read of the input stream raises, the worker eventually
\* leaves its command loop and shuts the vendor library down.
C37_BrokenInputStopsWorker == worker.broken ~> ( worker.shutdowns = 1 )

\* C38: in the session process no command reaches the vendor library before
\* initialization succeeded: while initialized is false a command other than
\* initialize gets the answer success false ("not initialized"), without any
\* vendor call and without initialized changing, and initialized becomes true
\* only in handling an initialize command whose vendor initialize succeeded.
C38_NoCommandBeforeInit ==
    [][ /\ ( child.pc = "handle" /\ ~ child.initialized /\ child.cmd # "initialize" ) =>
             /\ child'.last = [ success |-> FALSE,
                                error |-> << NotInitializedText, "" >> ]
             /\ child'.sent = child.sent + 1 \/ child'.way = "error"
             /\ child'.calls = child.calls
             /\ ~ child'.initialized
        /\ ( ~ child.initialized /\ child'.initialized ) =>
             /\ child.pc = "handle" /\ child.cmd = "initialize"
             /\ child'.vendor = "ok"
             /\ child'.last.success ]_vars

\* a trading command was refused, the process was initialized afterwards and
\* then served a trading command with a vendor call
C38_Witness ==
    /\ child.pc = "poll"
    /\ child.n = 3 /\ child.sent = 3
    /\ child.initialized
    /\ child.cmd = "order_send"
    /\ child.calls = 2
    /\ child.last.success

\* C39: the session process answers every command it handles with exactly one
\* result message (unless the send itself fails, which ends the loop), and on
\* every way out of the loop cleanup runs exactly once, the vendor library
\* being shut down if and only if the process was initialized, after which
\* initialized is false.
C39_CleanupOnce ==
    [][ /\ child.pc = "handle" =>
             \/ child'.sent = child.sent + 1 /\ child'.pc = "poll"
             \/ child'.sent = child.sent /\ child'.way = "error"
        /\ child.pc # "handle" => child'.sent = child.sent
        /\ child.pc = "finally" =>
             /\ child'.cleanups = 1
             /\ ( child'.shutdowns = 1 ) = child.initialized
        /\ child.pc \in { "scan", "done" } => UNCHANGED << child.cleanups, child.shutdowns >>
        /\ child'.pc = "done" =>
             /\ child'.way \in { "terminate", "closed", "error" }
             /\ child'.cleanups = 1
             /\ ~ child'.initialized ]_vars

====
